---- MODULE Spec2Model ----
(***************************************************************************)
(* solid-mutant: the store engine (createStore / dispatch / mutate /       *)
(* replaceEffect / replaceMutator), the mutator combinators                *)
(* (mutatorWithDefault, combineMutators, combineMutatorsFiltered) and the  *)
(* README counter mutator, as a small-step machine over an explicit call   *)
(* stack.  JavaScript is single-threaded: while the stack is non-empty the *)
(* only enabled action is the next step of the running call.               *)
(***************************************************************************)
EXTENDS Integers, Sequences, FiniteSets, TLC

VARIABLES
    cfg,          \* the arguments createStore was called with
    pc,           \* "construct" | "init" | "ready" | "failed"
    state,        \* the raw object behind the solid store (unwrap(state))
    mutator,      \* the `mutator` binding of createStore
    run,          \* the effect captured by the `run` closure ("none": run = mutate)
    is_mutating,  \* 0 | 1
    depth,        \* nesting depth of solid's batch()
    stack,        \* JavaScript call stack, innermost frame last
    ret,          \* value returned by the mutator call that just returned
    exc,          \* exception in flight ("none" when there is none)
    microtasks,   \* promise continuations queued by .then(dispatch)
    sel,          \* the memos of the structured selector the application made
    error,        \* exception that escaped the current/last top-level call
    trace,        \* history: events of the current/last top-level call
    top,          \* history: the value of the current/last top-level dispatch
    origin,       \* history: who made it: "api" | "call" | "microtask"
    ncalls,       \* history: number of top-level calls made by the application
    net,          \* history: increments minus decrements dispatched so far
    patched,      \* history: replaceMutator/replaceEffect has been called
    errors,       \* history: number of top-level calls that ended in an exception
    txPre,        \* history: state when the last mutation transaction began
    txAborted,    \* history: the last mutation transaction ended by an exception
    asked,        \* history: the mutator last handed to createStore/replaceMutator
    askedEffect,  \* history: the effect last handed to createStore/replaceEffect
    notified,     \* history: the update cycles of the current/last top-level call
    memos,        \* the memos made by evaluations of the composed selector
    composed,     \* what the composed selector returned last
    ncombine,     \* history: number of invocations of the combiner
    nevals,       \* history: number of evaluations of the composed selector
    changed,      \* history: a tracked field changed since the last evaluation
    input,        \* the value last handed to access()
    output        \* what access() returned for it

vars == <<cfg, pc, state, mutator, run, is_mutating, depth, stack, ret, exc,
          microtasks, sel, error, trace, top, origin, ncalls, net, patched, errors,
          txPre, txAborted, asked, askedEffect, notified,
          memos, composed, ncombine, nevals, changed, input, output>>

\* The variables of the selector functions used outside a store call.
selectorVars == <<memos, composed, ncombine, nevals, changed, input, output>>

\* Bound on the number of top-level calls (dispatch, replaceMutator,
\* replaceEffect) the application makes after createStore returned.
MaxCalls == 2

-----------------------------------------------------------------------------
(* JavaScript values held in the state tree *)

AllKeys == {"value", "a", "b", "users", "cartItems", "1"}

Undef == [t |-> "undefined"]
NaN == [t |-> "nan"]
Num(n) == [t |-> "number", n |-> n]
Obj(f) == [t |-> "object", f |-> f]

NoFields == [k \in AllKeys |-> Undef]
EmptyObject == Obj(NoFields)
CounterObject(n) == Obj([NoFields EXCEPT !["value"] = Num(n)])

\* ToBoolean: objects are truthy; undefined, NaN and 0 are falsy.
Truthy(v) == \/ v.t = "object"
             \/ (v.t = "number" /\ v.n # 0)

\* v++ and v-- on a property value.
Incremented(v) == IF v.t = "number" THEN Num(v.n + 1) ELSE NaN
Decremented(v) == IF v.t = "number" THEN Num(v.n - 1) ELSE NaN

\* obj[k1][k2]... ; reading a property of a primitive yields undefined.
RECURSIVE GetPath(_, _)
GetPath(v, path) ==
    IF path = <<>> THEN v
    ELSE IF v.t = "object" THEN GetPath(v.f[Head(path)], Tail(path))
    ELSE Undef

\* obj[k1][k2]... = x, written through to the object itself.
RECURSIVE SetPath(_, _, _)
SetPath(v, path, x) ==
    IF path = <<>> THEN x
    ELSE IF v.t = "object"
         THEN Obj([v.f EXCEPT ![Head(path)] = SetPath(@, Tail(path), x)])
         ELSE v

\* The own keys of an object: a key is present once it holds a value.
OwnKeys(v) == IF v.t = "object" THEN {k \in AllKeys : v.f[k] # Undef} ELSE {}

-----------------------------------------------------------------------------
(* Action types and strings *)

Str(s) == [tof |-> "string", s |-> s]
NumType(s) == [tof |-> "number", s |-> s]
NoType == [tof |-> "undefined", s |-> ""]

TypeTruthy(t) == \/ (t.tof = "string" /\ t.s # "")
                 \/ (t.tof = "number" /\ t.s # "0")

\* The characters of the strings the model uses.
Chars(s) ==
    CASE s = "@@INIT" -> <<"@", "@", "I", "N", "I", "T">>
      [] s = "increment" -> <<"i", "n", "c", "r", "e", "m", "e", "n", "t">>
      [] s = "decrement" -> <<"d", "e", "c", "r", "e", "m", "e", "n", "t">>
      [] s = "fail" -> <<"f", "a", "i", "l">>
      [] s = "nest" -> <<"n", "e", "s", "t">>
      [] s = "nestTry" -> <<"n", "e", "s", "t", "T", "r", "y">>
      [] s = "users/add" -> <<"u", "s", "e", "r", "s", "/", "a", "d", "d">>
      [] s = "swap" -> <<"s", "w", "a", "p">>
      [] s = "rewire" -> <<"r", "e", "w", "i", "r", "e">>
      [] s = "rewireTry" -> <<"r", "e", "w", "i", "r", "e", "T", "r", "y">>
      [] s = "1st" -> <<"1", "s", "t">>
      [] s = "value" -> <<"v", "a", "l", "u", "e">>
      [] s = "a" -> <<"a">>
      [] s = "b" -> <<"b">>
      [] s = "users" -> <<"u", "s", "e", "r", "s">>
      [] s = "cartItems" -> <<"c", "a", "r", "t", "I", "t", "e", "m", "s">>
      [] s = "1" -> <<"1">>
      [] OTHER -> <<>>

\* Mutant of StartsWith: the type is compared with the key for equality.
StringEquals(s, prefix) == Chars(s) = Chars(prefix)

\* String.prototype.startsWith
StartsWith(s, prefix) ==
    LET cs == Chars(s)
        cp == Chars(prefix)
    IN /\ Len(cp) <= Len(cs)
       /\ SubSeq(cs, 1, Len(cp)) = cp

\* Canonical array indices among the keys, with their numeric value.
IsIndexKey(k) == k \in {"1"}
IndexValue(k) == IF k = "1" THEN 1 ELSE 0

\* Object.keys(map) for a map literal whose keys were written in the order
\* `ins`: integer-like keys first in ascending numeric order, then the other
\* keys in insertion order.
RECURSIVE SortedIndexKeys(_)
SortedIndexKeys(ks) ==
    IF ks = {} THEN <<>>
    ELSE LET m == CHOOSE k \in ks : \A o \in ks : IndexValue(k) <= IndexValue(o)
         IN <<m>> \o SortedIndexKeys(ks \ {m})

ObjectKeys(ins) ==
    LET idx == {ins[i] : i \in {j \in 1..Len(ins) : IsIndexKey(ins[j])}}
    IN SortedIndexKeys(idx) \o SelectSeq(ins, LAMBDA k : ~IsIndexKey(k))

-----------------------------------------------------------------------------
(* Values that can be handed to dispatch, described by the runtime shape   *)
(* that dispatch inspects.                                                 *)

PlainObject ==
    [truthy |-> TRUE, tof |-> "object", type |-> NoType, isArray |-> FALSE,
     items |-> <<>>, thenable |-> FALSE, resolves |-> <<>>, calls |-> <<>>,
     payload |-> <<>>]

\* undefined
Falsy == [PlainObject EXCEPT !.truthy = FALSE, !.tof = "undefined"]
\* {type: t}
Action(t) == [PlainObject EXCEPT !.type = t]
\* {type: t, payload: p}
ActionWith(t, p) == [PlainObject EXCEPT !.type = t, !.payload = <<p>>]
\* [v1, v2, ...]
Array(items) == [PlainObject EXCEPT !.isArray = TRUE, !.items = items]
\* Promise.resolve(v)
ResolvedPromise(v) == [PlainObject EXCEPT !.thenable = TRUE, !.resolves = <<v>>]
\* (dispatch, state) => { dispatch(c1); dispatch(c2); ... }
Thunk(calls) == [PlainObject EXCEPT !.tof = "function", !.calls = calls]

\* action.payload
Payload(a) == IF Len(a.payload) = 0 THEN Falsy ELSE a.payload[1]

INIT == Action(Str("@@INIT"))

Inc == Action(Str("increment"))
Dec == Action(Str("decrement"))
Fail == Action(Str("fail"))
UsersAdd == Action(Str("users/add"))
FortyTwo == Action(NumType("42"))
Swap == Action(Str("swap"))
Rewire == Action(Str("rewire"))
RewireTry == Action(Str("rewireTry"))
\* Object.assign([increment], {then: resolve => resolve(decrement)})
ThenableArray == [Array(<<Inc>>) EXCEPT !.thenable = TRUE, !.resolves = <<Dec>>]
\* {payload: 1}: an object without a type
TypelessObject == PlainObject

-----------------------------------------------------------------------------
(* Application code: mutator bodies, effects, default constructors.        *)
(* A body is the list of statements it executes for the given action.      *)

OpInc == [op |-> "inc"]
OpDec == [op |-> "dec"]
OpThrow == [op |-> "throw"]
OpDispatch(v, caught) == [op |-> "dispatch", v |-> v, caught |-> caught]
OpReplaceEffect(e) == [op |-> "replaceEffect", effect |-> e]
OpReplaceMutator(name, caught) ==
    [op |-> "replaceMutator", mutator |-> name, caught |-> caught]

\* Mutant of CounterSwitch: the decrement case increments too.
CounterSwitchBothInc(action) ==
    IF action.type = Str("increment") THEN <<OpInc>>
    ELSE IF action.type = Str("decrement") THEN <<OpInc>>
    ELSE <<>>

\* README "Mutators": switch(action.type) { increment: state.value++;
\* decrement: state.value--; }
CounterSwitch(action) ==
    IF action.type = Str("increment") THEN <<OpInc>>
    ELSE IF action.type = Str("decrement") THEN <<OpDec>>
    ELSE <<>>

\* The statements of the half-mutator `name` for `action`:
\*   "counter": the README switch;
\*   "risky":   the README switch, plus
\*                fail:    state.value++; throw new Error()
\*                nest:    state.value++; dispatch(action.payload); state.value++
\*                nestTry: try { dispatch(action.payload) } catch {}; state.value++
\*                swap:    store.replaceEffect(log)
\*                rewire:  store.replaceMutator(readme)
\*                rewireTry: try { store.replaceMutator(readme) } catch {};
\*                           state.value++
\*   "users":   if(action.type == 'users/add') state.value++
\*   "noop":    nothing.
BodyOps(name, action) ==
    IF name = "counter" THEN CounterSwitch(action)
    ELSE IF name = "users"
         THEN IF action.type = Str("users/add") THEN <<OpInc>> ELSE <<>>
    ELSE IF name = "risky" THEN
        IF action.type = Str("fail") THEN <<OpInc, OpThrow>>
        ELSE IF action.type = Str("nest")
             THEN <<OpInc, OpDispatch(Payload(action), FALSE), OpInc>>
        ELSE IF action.type = Str("nestTry")
             THEN <<OpDispatch(Payload(action), TRUE), OpInc>>
        ELSE IF action.type = Str("swap") THEN <<OpReplaceEffect("log")>>
        ELSE IF action.type = Str("rewire")
             THEN <<OpReplaceMutator("readme", FALSE)>>
        ELSE IF action.type = Str("rewireTry")
             THEN <<OpReplaceMutator("readme", TRUE), OpInc>>
        ELSE CounterSwitch(action)
    ELSE <<>>

\* The statements of the effect `name` for `action`:
\*   "log":   README some_effect, which dispatches nothing;
\*   "chain": if(action.type == 'increment') dispatch({type: 'decrement'}).
EffectOps(name, action) ==
    IF name = "chain" /\ action.type = Str("increment")
    THEN <<OpDispatch(Dec, FALSE)>>
    ELSE <<>>

\* combineEffects(e1, ..., en): the effects it was given, in argument order
\* ("chain+log" is combineEffects(chain, log)); <<>> for any other effect.
CombinedParts(name) ==
    IF name = "chain+log" THEN <<"chain", "log">> ELSE <<>>

\* default_state(): "emptyObject" is () => ({}), "counterObject" is
\* () => ({value: 0}), "zero" is () => 0.
DefaultState(def) ==
    IF def = "emptyObject" THEN EmptyObject
    ELSE IF def = "counterObject" THEN CounterObject(0)
    ELSE Num(0)

-----------------------------------------------------------------------------
(* Mutators as data *)

\* The README mutator function.
Readme == [k |-> "readme"]

MutatorWithDefault(def, body) ==
    [k |-> "withDefault", def |-> def, body |-> [k |-> "user", name |-> body]]

\* combineMutators(map), the literal `map` written with its keys in order ins.
CombineMutators(ins, map) ==
    [k |-> "withDefault", def |-> "emptyObject",
     body |-> [k |-> "combine", filtered |-> FALSE, ins |-> ins,
               keys |-> ObjectKeys(ins), map |-> map]]

CombineMutatorsFiltered(ins, map) ==
    [k |-> "withDefault", def |-> "emptyObject",
     body |-> [k |-> "combine", filtered |-> TRUE, ins |-> ins,
               keys |-> ObjectKeys(ins), map |-> map]]

-----------------------------------------------------------------------------
(* The machine: every operator below maps a machine record (one field per  *)
(* variable) to the machine record after the step.                         *)

Mach ==
    [cfg |-> cfg, pc |-> pc, state |-> state, mutator |-> mutator, run |-> run,
     is_mutating |-> is_mutating, depth |-> depth, stack |-> stack, ret |-> ret,
     exc |-> exc, microtasks |-> microtasks, sel |-> sel, error |-> error,
     trace |-> trace,
     top |-> top, origin |-> origin, ncalls |-> ncalls, net |-> net, patched |-> patched,
     errors |-> errors, txPre |-> txPre, txAborted |-> txAborted,
     asked |-> asked, askedEffect |-> askedEffect, notified |-> notified]

Commit(R) ==
    /\ cfg' = R.cfg
    /\ pc' = R.pc
    /\ state' = R.state
    /\ mutator' = R.mutator
    /\ run' = R.run
    /\ is_mutating' = R.is_mutating
    /\ depth' = R.depth
    /\ stack' = R.stack
    /\ ret' = R.ret
    /\ exc' = R.exc
    /\ microtasks' = R.microtasks
    /\ sel' = R.sel
    /\ error' = R.error
    /\ trace' = R.trace
    /\ top' = R.top
    /\ origin' = R.origin
    /\ ncalls' = R.ncalls
    /\ net' = R.net
    /\ patched' = R.patched
    /\ errors' = R.errors
    /\ txPre' = R.txPre
    /\ txAborted' = R.txAborted
    /\ asked' = R.asked
    /\ askedEffect' = R.askedEffect
    /\ notified' = R.notified
    /\ UNCHANGED selectorVars

(* Stack frames *)

ApiFrame(name) == [k |-> name]
RunFrame(action, effect) ==
    [k |-> "run", action |-> action, effect |-> effect, phase |-> "mutate"]
ForEachFrame(items) == [k |-> "forEach", items |-> items, i |-> 1]
ThunkFrame(calls) == [k |-> "thunk", calls |-> calls, i |-> 1]
EffectFrame(name, action) ==
    [k |-> "effect", name |-> name, action |-> action, i |-> 1]
MutateFrame(action) == [k |-> "mutate", action |-> action]
\* A call m(arg, action) where arg is the value at `path` below `root`
\* (root 0: the store's state; root j > 0: the fresh object of frame j).
MutatorFrame(m, action, root, path) ==
    [k |-> "mutator", m |-> m, action |-> action, root |-> root, path |-> path,
     phase |-> "enter", has_state |-> FALSE, fresh |-> Undef, i |-> 1,
     ndefault |-> 0, nbody |-> 0, arg0 |-> Undef, called |-> <<>>]

Depth(M) == Len(M.stack)
TopFrame(M) == M.stack[Len(M.stack)]
Push(M, fr) == [M EXCEPT !.stack = Append(@, fr)]
Pop(M) == [M EXCEPT !.stack = SubSeq(@, 1, Len(@) - 1)]
Log(M, ev) == [M EXCEPT !.trace = Append(@, ev)]

\* Frames that are the callback of a batch() opened by dispatch.
IsBatchFrame(fr) == fr.k \in {"run", "forEach", "thunk"}

InEffect(M) == \E j \in 1..Len(M.stack) : M.stack[j].k = "effect"

(* The structured selector createStructuredSelector({k: s => s[k], ...})    *)
(* with one entry per key of AllKeys, applied to store.state: one memo per  *)
(* key.  `cache` is what each memo last computed, `stale` the memos whose    *)
(* source changed since, `pending` those queued for the end of the batch,   *)
(* `reran` how often each was re-run during the current top-level call.     *)

\* What s => s[k] returns: a primitive by value, an object by reference.
Shallow(v) == IF v.t = "object" THEN [t |-> "object"] ELSE v

\* a === b for the values a store field holds before and after a write (an
\* object is never overwritten by another object; NaN !== NaN).
StrictEquals(a, b) ==
    IF a.t = "object" /\ b.t = "object" THEN TRUE
    ELSE a.t # "nan" /\ a = b

\* Mutant of Reads: one computation reads every field, as if the whole
\* structure were a single memo.
ReadsAll(k) == AllKeys

\* The state fields the selector map[k] reads: s => s[k] reads field k.
Reads(k) == {k}

NoSelector ==
    [made |-> FALSE, cache |-> [k \in AllKeys |-> Undef], stale |-> {},
     pending |-> {}, reran |-> [k \in AllKeys |-> 0]]

\* createStructuredSelector(map)(state): for(let key in map) a property
\* whose getter is createMemo(() => map[key](state)); a memo runs once when
\* it is created.
CreateStructuredSelectorM(M) ==
    [M EXCEPT !.sel = [made |-> TRUE,
                       cache |-> [k \in AllKeys |-> Shallow(M.state.f[k])],
                       stale |-> {}, pending |-> {},
                       reran |-> [k \in AllKeys |-> 0]]]

\* A write of store field f through the produce proxy: when the value
\* changes, the memos that read f become stale and are queued.
NotifyM(M, f, old, new) ==
    IF ~M.sel.made \/ StrictEquals(old, new) THEN M
    ELSE LET ks == {k \in AllKeys : f \in Reads(k)} \ M.sel.stale
         IN [M EXCEPT !.sel.stale = @ \cup ks, !.sel.pending = @ \cup ks]

\* The queued memos are re-run.
RunPendingM(M) ==
    [M EXCEPT !.sel.cache = [k \in AllKeys |->
                               IF k \in M.sel.pending
                               THEN Shallow(M.state.f[k]) ELSE @[k]],
              !.sel.reran = [k \in AllKeys |->
                               IF k \in M.sel.pending THEN @[k] + 1 ELSE @[k]],
              !.sel.stale = @ \ M.sel.pending,
              !.sel.pending = {}]

\* Reading property k of the selector's result: the memo's value, computed
\* again first when it is stale.
ReadProperty(M, k) ==
    IF k \in M.sel.stale THEN Shallow(M.state.f[k]) ELSE M.sel.cache[k]

Read(M, root, path) ==
    IF root = 0 THEN GetPath(M.state, path)
    ELSE GetPath(M.stack[root].fresh, path)

\* A property write through the produce proxy (or on a fresh object): it
\* lands on the underlying object at once.
Write(M, root, path, x) ==
    IF root = 0
    THEN LET W == [M EXCEPT !.state = SetPath(@, path, x)]
         IN IF Len(path) = 1
            THEN NotifyM(W, path[1], M.state.f[path[1]], x)
            ELSE W
    ELSE [M EXCEPT !.stack[root].fresh = SetPath(@, path, x)]

-----------------------------------------------------------------------------
(* createStore: replaceEffect, dispatch *)

\* run = effect ? (action) => { mutate(action); effect(...) } : mutate
ReplaceEffectM(M, effect) ==
    [M EXCEPT !.run = effect, !.askedEffect = effect]

\* Mutant of DispatchM: dispatch without the is_mutating guard.
DispatchUnguardedM(M, v) ==
    LET M1 == Log(M, [e |-> "dispatch", v |-> v, rejected |-> FALSE])
        B == [M1 EXCEPT !.depth = @ + 1]
    IN IF ~v.truthy THEN M1
       ELSE IF v.tof = "object" /\ TypeTruthy(v.type)
            THEN Push(B, RunFrame(v, M.run))
       ELSE IF v.isArray THEN Push(B, ForEachFrame(v.items))
       ELSE IF v.thenable THEN [M1 EXCEPT !.microtasks = @ \o v.resolves]
       ELSE IF v.tof = "function" THEN Push(B, ThunkFrame(v.calls))
       ELSE M1

\* Mutant of DispatchM: the promise branch never calls .then(dispatch).
DispatchDropsPromiseM(M, v) ==
    IF M.is_mutating = 1
    THEN [Log(M, [e |-> "dispatch", v |-> v, rejected |-> TRUE])
            EXCEPT !.exc = "reentrant"]
    ELSE LET M1 == Log(M, [e |-> "dispatch", v |-> v, rejected |-> FALSE])
             B == [M1 EXCEPT !.depth = @ + 1]
         IN IF ~v.truthy THEN M1
            ELSE IF v.tof = "object" /\ TypeTruthy(v.type)
                 THEN Push(B, RunFrame(v, M.run))
            ELSE IF v.isArray THEN Push(B, ForEachFrame(v.items))
            ELSE IF v.thenable THEN M1
            ELSE IF v.tof = "function" THEN Push(B, ThunkFrame(v.calls))
            ELSE M1

\* dispatch(v), called by the code of the innermost frame (or by the
\* application when the stack is empty).
DispatchM(M, v) ==
    IF M.is_mutating = 1
    THEN [Log(M, [e |-> "dispatch", v |-> v, rejected |-> TRUE])
            EXCEPT !.exc = "reentrant"]
    ELSE LET M1 == Log(M, [e |-> "dispatch", v |-> v, rejected |-> FALSE])
             B == [M1 EXCEPT !.depth = @ + 1]
         IN IF ~v.truthy THEN M1
            ELSE IF v.tof = "object" /\ TypeTruthy(v.type)
                 THEN Push(B, RunFrame(v, M.run))
            ELSE IF v.isArray THEN Push(B, ForEachFrame(v.items))
            ELSE IF v.thenable
                 THEN [M1 EXCEPT !.microtasks = @ \o v.resolves]
            ELSE IF v.tof = "function" THEN Push(B, ThunkFrame(v.calls))
            ELSE M1

\* mutate(action) up to the call of the mutator: is_mutating = 1, then
\* setState(produce(s => mutator(s, action))).
MutateM(M, action) ==
    LET M1 == [M EXCEPT !.is_mutating = 1, !.txPre = M.state,
                        !.txAborted = FALSE]
        M2 == Log(M1, [e |-> "mutate", type |-> action.type,
                       viaEffect |-> InEffect(M), by |-> M.mutator,
                       inst |-> M.run])
    IN Push(Push(M2, MutateFrame(action)),
            MutatorFrame(M.mutator, action, 0, <<>>))

\* Mutant of MutateFinallyM: the flag is reset after the call instead of in
\* a finally block, so an exception skips the reset.
MutateNoFinallyM(M) ==
    [Pop(M) EXCEPT !.is_mutating = IF M.exc = "none" THEN 0 ELSE @,
                   !.txAborted = (M.exc # "none")]

\* mutate(action): the finally block.
MutateFinallyM(M) ==
    [Pop(M) EXCEPT !.is_mutating = 0, !.txAborted = (M.exc # "none")]

-----------------------------------------------------------------------------
(* Steps of the frames dispatch pushes *)

AdvanceTop(M) == [M EXCEPT !.stack[Len(M.stack)].i = @ + 1]

\* The mutator invocations of the current top-level call so far, and those
\* the observers of state have been notified of.
MutationCount(M) == Len(SelectSeq(M.trace, LAMBDA ev : ev.e = "mutate"))
NotifiedCount(M) ==
    IF M.notified = <<>> THEN 0 ELSE M.notified[Len(M.notified)].muts

\* An update cycle: the observers of state run, seeing the current state.
Flush(M) ==
    RunPendingM([M EXCEPT !.notified =
        Append(@, [muts |-> MutationCount(M), state |-> M.state])])

\* Mutant of EndBatch: every batch() flushes when its callback returns,
\* nested or not.
EndBatchFlushesAlways(M) ==
    LET P == [Pop(M) EXCEPT !.depth = @ - 1]
    IN IF MutationCount(P) > NotifiedCount(P) THEN Flush(P) ELSE P

\* The end of a batch() callback: a nested batch just returns, the outermost
\* one runs the pending updates.
EndBatch(M) ==
    LET P == [Pop(M) EXCEPT !.depth = @ - 1]
    IN IF P.depth = 0 /\ MutationCount(P) > NotifiedCount(P)
       THEN Flush(P) ELSE P

\* Mutant of ForEachStepM: the elements are dispatched from the last to the
\* first.
ForEachReversedM(M) ==
    LET fr == TopFrame(M)
    IN IF fr.i <= Len(fr.items)
       THEN DispatchM(AdvanceTop(M), fr.items[Len(fr.items) + 1 - fr.i])
       ELSE EndBatch(M)

\* action.forEach(dispatch)
ForEachStepM(M) ==
    LET fr == TopFrame(M)
    IN IF fr.i <= Len(fr.items)
       THEN DispatchM(AdvanceTop(M), fr.items[fr.i])
       ELSE EndBatch(M)

\* action(dispatch, unwrap(state)): the thunk's calls of dispatch, in order.
ThunkStepM(M) ==
    LET fr == TopFrame(M)
    IN IF fr.i <= Len(fr.calls)
       THEN DispatchM(AdvanceTop(M), fr.calls[fr.i])
       ELSE EndBatch(M)

\* run(action): the call of mutate(action).
RunMutateM(M) ==
    MutateM([M EXCEPT !.stack[Len(M.stack)].phase = "effect"],
            TopFrame(M).action)

\* Mutant of RunEffectM: the effect is looked up when mutate has returned
\* instead of being the one the running closure captured.
RunEffectLateBoundM(M) ==
    LET fr == TopFrame(M)
    IN IF M.run = "none" THEN EndBatch(M)
       ELSE Push(Log([M EXCEPT !.stack[Len(M.stack)].phase = "done"],
                     [e |-> "effect", name |-> M.run,
                      type |-> fr.action.type, seen |-> M.state,
                      mutating |-> M.is_mutating]),
                 EffectFrame(M.run, fr.action))

\* Mutant of RunEffectM: the effect is handed the state as it was before the
\* mutation.
RunEffectPreStateM(M) ==
    LET fr == TopFrame(M)
    IN IF fr.effect = "none" THEN EndBatch(M)
       ELSE Push(Log([M EXCEPT !.stack[Len(M.stack)].phase = "done"],
                     [e |-> "effect", name |-> fr.effect,
                      type |-> fr.action.type, seen |-> M.txPre,
                      mutating |-> M.is_mutating]),
                 EffectFrame(fr.effect, fr.action))

\* run(action) after mutate returned: effect(unwrap(state), action, dispatch)
\* when the closure holds an effect; run = mutate otherwise.
RunEffectM(M) ==
    LET fr == TopFrame(M)
    IN IF fr.effect = "none" THEN EndBatch(M)
       ELSE Push(Log([M EXCEPT !.stack[Len(M.stack)].phase = "done"],
                     [e |-> "effect", name |-> fr.effect,
                      type |-> fr.action.type, seen |-> M.state,
                      mutating |-> M.is_mutating]),
                 EffectFrame(fr.effect, fr.action))

RunReturnM(M) == EndBatch(M)

\* combineEffects: for(let effect of effects) effect(state, action, dispatch)
\* with state the object the combined effect was called with.
CombinedEffectStepM(M) ==
    LET fr == TopFrame(M)
        parts == CombinedParts(fr.name)
    IN IF fr.i <= Len(parts)
       THEN Push(Log(AdvanceTop(M),
                     [e |-> "part", name |-> parts[fr.i], of |-> fr.name,
                      type |-> fr.action.type, seen |-> M.state]),
                 EffectFrame(parts[fr.i], fr.action))
       ELSE Pop(M)

\* The body of the installed effect.
EffectStepM(M) ==
    LET fr == TopFrame(M)
        ops == EffectOps(fr.name, fr.action)
    IN IF CombinedParts(fr.name) # <<>> THEN CombinedEffectStepM(M)
       ELSE IF fr.i <= Len(ops)
       THEN DispatchM(AdvanceTop(M), ops[fr.i].v)
       ELSE Pop(M)

-----------------------------------------------------------------------------
(* Mutator calls *)

IsCombine(m) == m.k = "withDefault" /\ m.body.k = "combine"

\* Where the writes of the mutator's body land: the argument itself when it
\* was given one, its freshly made default otherwise.
TargetRoot(M) ==
    LET fr == TopFrame(M) IN IF fr.has_state THEN fr.root ELSE Len(M.stack)
TargetPath(M) ==
    LET fr == TopFrame(M) IN IF fr.has_state THEN fr.path ELSE <<>>

\* Entry of a mutator call.
\*   mutatorWithDefault: has_state = state ? 1 : (state = default_state(), 0),
\*     then mutator(state, action);
\*   README mutator: if(!state) { state = {value: 0}; mutator(state, action);
\*     return state; }
MutatorEnterM(M) ==
    LET n == Len(M.stack)
        fr == TopFrame(M)
        arg == Read(M, fr.root, fr.path)
        has == Truthy(arg)
    IN IF fr.m.k = "readme"
       THEN IF has
            THEN [M EXCEPT !.stack[n] =
                     [fr EXCEPT !.has_state = TRUE, !.phase = "body",
                                !.arg0 = arg]]
            ELSE Push([M EXCEPT !.stack[n] =
                          [fr EXCEPT !.fresh = CounterObject(0),
                                     !.phase = "return", !.arg0 = arg]],
                      MutatorFrame(Readme, fr.action, n, <<>>))
       ELSE [M EXCEPT !.stack[n] =
                [fr EXCEPT !.has_state = has,
                           !.fresh = IF has THEN Undef
                                     ELSE DefaultState(fr.m.def),
                           !.ndefault = IF has THEN 0 ELSE 1,
                           !.nbody = 1, !.phase = "body", !.arg0 = arg]]

\* The statements the body of a non-combined mutator runs.
UserOps(fr) ==
    IF fr.m.k = "readme" THEN CounterSwitch(fr.action)
    ELSE BodyOps(fr.m.body.name, fr.action)

\* The mutator a body hands to store.replaceMutator.
NamedMutator(name) == Readme

\* Mutant of ReplaceMutatorInsideM: the error leaves the installed mutator
\* as it was.
ReplaceMutatorRestoresM(M, m) ==
    DispatchM(Log([M EXCEPT !.asked = m, !.patched = TRUE],
                  [e |-> "swap", m |-> m]),
              INIT)

\* store.replaceMutator(m) called by the code of the innermost frame:
\* mutator = new_mutator; dispatch(INIT)
ReplaceMutatorInsideM(M, m) ==
    DispatchM(Log([M EXCEPT !.mutator = m, !.asked = m, !.patched = TRUE],
                  [e |-> "swap", m |-> m]),
              INIT)

\* One statement of a user-written mutator body.
UserStepM(M) ==
    LET n == Len(M.stack)
        fr == TopFrame(M)
        ops == UserOps(fr)
        A == AdvanceTop(M)
        tr == TargetRoot(M)
        tp == TargetPath(M) \o <<"value">>
    IN IF fr.i > Len(ops) THEN [M EXCEPT !.stack[n].phase = "return"]
       ELSE LET op == ops[fr.i]
            IN IF op.op = "inc"
               THEN Write(A, tr, tp, Incremented(Read(M, tr, tp)))
               ELSE IF op.op = "dec"
               THEN Write(A, tr, tp, Decremented(Read(M, tr, tp)))
               ELSE IF op.op = "throw" THEN [A EXCEPT !.exc = "boom"]
               ELSE IF op.op = "replaceEffect"
               THEN ReplaceEffectM(A, op.effect)
               ELSE IF op.op = "replaceMutator"
               THEN ReplaceMutatorInsideM(A, NamedMutator(op.mutator))
               ELSE DispatchM(A, op.v)

\* can_filter && !action.type.startsWith(key)  (combineMutatorsFiltered only)
Skips(body, action, key) ==
    /\ body.filtered
    /\ action.type.tof = "string"
    /\ ~StartsWith(action.type.s, key)

\* One iteration of `for(let key of keys)` up to the call
\* mutators[key](state[key], action).
CombineStepM(M) ==
    LET n == Len(M.stack)
        fr == TopFrame(M)
        keys == fr.m.body.keys
    IN IF fr.i > Len(keys) THEN [M EXCEPT !.stack[n].phase = "return"]
       ELSE LET key == keys[fr.i]
            IN IF Skips(fr.m.body, fr.action, key) THEN AdvanceTop(M)
               ELSE Push(Log([M EXCEPT !.stack[n].phase = "assign",
                                       !.stack[n].called = Append(@, key)],
                             [e |-> "field", key |-> key,
                              type |-> fr.action.type]),
                         MutatorFrame(fr.m.body.map[key], fr.action,
                                      TargetRoot(M),
                                      TargetPath(M) \o <<key>>))

MutatorBodyM(M) ==
    IF IsCombine(TopFrame(M).m) THEN CombineStepM(M) ELSE UserStepM(M)

\* if(!!res)
ShouldAssign(res) == Truthy(res)

\* if(!!res) { state[key] = res; }  with res the value the field mutator
\* returned.
MutatorAssignM(M) ==
    LET n == Len(M.stack)
        fr == TopFrame(M)
        key == fr.m.body.keys[fr.i]
        M1 == IF ShouldAssign(M.ret)
              THEN Write(M, TargetRoot(M), TargetPath(M) \o <<key>>, M.ret)
              ELSE M
    IN [M1 EXCEPT !.stack[n].i = @ + 1, !.stack[n].phase = "body"]

\* Mutant of ReturnValue: the fresh state is never returned.
ReturnNothing(fr) == Undef

\* if(!has_state) return state; else return;
ReturnValue(fr) == IF fr.has_state THEN Undef ELSE fr.fresh

MutatorReturnM(M) == [Pop(M) EXCEPT !.ret = ReturnValue(TopFrame(M))]

-----------------------------------------------------------------------------
(* Exceptions *)

\* The statements of a frame that runs application code.
FrameOps(fr) ==
    IF fr.k = "mutator" /\ ~IsCombine(fr.m) /\ fr.phase = "body"
    THEN UserOps(fr)
    ELSE IF fr.k = "effect" THEN EffectOps(fr.name, fr.action)
    ELSE IF fr.k = "thunk"
         THEN [j \in 1..Len(fr.calls) |-> OpDispatch(fr.calls[j], FALSE)]
    ELSE <<>>

\* The frame's last statement was a dispatch inside try { } catch { }.
Catches(fr) ==
    LET ops == FrameOps(fr)
    IN /\ fr.k \in {"mutator", "effect", "thunk"}
       /\ fr.i > 1
       /\ fr.i - 1 <= Len(ops)
       /\ ops[fr.i - 1].op \in {"dispatch", "replaceMutator"}
       /\ ops[fr.i - 1].caught

\* An exception reaches the innermost frame: caught there, or the frame is
\* left (a batch() callback that throws ends its batch; the outermost one
\* drops its queue, the stale memos are computed again when next read).
UnwindM(M) ==
    LET fr == TopFrame(M)
    IN IF Catches(fr) THEN Log([M EXCEPT !.exc = "none"], [e |-> "caught"])
       ELSE [Pop(M) EXCEPT
                !.depth = IF IsBatchFrame(fr) THEN @ - 1 ELSE @,
                !.sel.pending = IF IsBatchFrame(fr) /\ M.depth = 1
                                THEN {} ELSE @,
                !.pc = IF fr.k = "createStore" THEN "failed" ELSE @]

\* The exception leaves the top-level call.
UncaughtM(M) ==
    [M EXCEPT !.error = M.exc, !.exc = "none", !.errors = @ + 1]

\* createStore / replaceMutator return after their dispatch(INIT); the
\* application then builds its structured selector on store.state.
ApiReturnM(M) ==
    IF TopFrame(M).k = "createStore"
    THEN CreateStructuredSelectorM([Pop(M) EXCEPT !.pc = "ready"])
    ELSE Pop(M)

-----------------------------------------------------------------------------
(* What the application does with the library *)

\* The stores the application builds: createStore(mutator, initial, effect).
Configs ==
    { [name |-> "readme", mutator |-> Readme,
       initial |-> CounterObject(0), effect |-> "none"],
      [name |-> "single",
       mutator |-> MutatorWithDefault("counterObject", "risky"),
       initial |-> CounterObject(0), effect |-> "log"],
      [name |-> "combined",
       mutator |-> CombineMutators(<<"a", "b">>,
           [k \in {"a", "b"} |->
               IF k = "a" THEN MutatorWithDefault("counterObject", "risky")
               ELSE MutatorWithDefault("counterObject", "counter")]),
       initial |-> EmptyObject, effect |-> "chain"],
      [name |-> "combinedZero",
       mutator |-> CombineMutators(<<"a", "b">>,
           [k \in {"a", "b"} |->
               IF k = "a" THEN MutatorWithDefault("zero", "noop")
               ELSE MutatorWithDefault("counterObject", "counter")]),
       initial |-> EmptyObject, effect |-> "log"],
      [name |-> "filtered",
       mutator |-> CombineMutatorsFiltered(<<"users", "cartItems">>,
           [k \in {"users", "cartItems"} |->
               IF k = "users" THEN MutatorWithDefault("counterObject", "users")
               ELSE MutatorWithDefault("counterObject", "counter")]),
       initial |-> EmptyObject, effect |-> "none"],
      [name |-> "filteredIndex",
       mutator |-> CombineMutatorsFiltered(<<"users", "1">>,
           [k \in {"users", "1"} |->
               IF k = "users" THEN MutatorWithDefault("counterObject", "users")
               ELSE MutatorWithDefault("counterObject", "counter")]),
       initial |-> EmptyObject, effect |-> "none"] }

\* The values the application dispatches inside a mutator.
NestedValues ==
    {Falsy, Inc, Array(<<Inc>>), Thunk(<<Inc>>), ResolvedPromise(Inc)}

\* The values the application dispatches at top level.
TopValues ==
    {Falsy, Inc, Dec, Fail, UsersAdd, FortyTwo, Swap, ThenableArray,
     TypelessObject, Rewire, Array(<<RewireTry, Inc>>),
     Array(<<Inc, Dec>>), Array(<<Array(<<Dec>>), Inc, UsersAdd>>),
     Array(<<Fail, Inc>>), Thunk(<<Inc, Array(<<Dec, Inc>>)>>),
     ResolvedPromise(Inc)}
    \cup {ActionWith(Str("nest"), p) : p \in NestedValues}
    \cup {ActionWith(Str("nestTry"), p) : p \in {Falsy, Inc}}

\* History: what a dispatched value asks of a counter, increments minus
\* decrements, counting the plain actions of arrays and thunks in it.
RECURSIVE StaticNet(_)
RECURSIVE StaticNetSeq(_)
StaticNet(v) ==
    IF ~v.truthy THEN 0
    ELSE IF v.tof = "object" /\ TypeTruthy(v.type)
         THEN IF v.type = Str("increment") THEN 1
              ELSE IF v.type = Str("decrement") THEN -1
              ELSE 0
    ELSE IF v.isArray THEN StaticNetSeq(v.items)
    ELSE IF v.thenable THEN 0
    ELSE IF v.tof = "function" THEN StaticNetSeq(v.calls)
    ELSE 0
StaticNetSeq(vs) ==
    IF vs = <<>> THEN 0 ELSE StaticNet(Head(vs)) + StaticNetSeq(Tail(vs))

\* A top-level call starts a new history.
Fresh(M, v, who) ==
    [M EXCEPT !.trace = <<>>, !.error = "none", !.top = v, !.origin = who,
              !.net = @ + StaticNet(v), !.notified = <<>>,
              !.sel.reran = [k \in AllKeys |-> 0]]

\* Mutant of CreateStoreM: the store is returned without dispatch(INIT).
CreateStoreNoInitM(M) ==
    Push([ReplaceEffectM(Fresh(M, INIT, "api"), M.cfg.effect)
            EXCEPT !.pc = "init"],
         ApiFrame("createStore"))

\* createStore(mutator, initial, effect) from replaceEffect(effect) on.
CreateStoreM(M) ==
    DispatchM(Push([ReplaceEffectM(Fresh(M, INIT, "api"), M.cfg.effect)
                      EXCEPT !.pc = "init"],
                   ApiFrame("createStore")),
              INIT)

\* store.dispatch(v) called by the application.
DispatchCallM(M, v) == DispatchM([Fresh(M, v, "call") EXCEPT !.ncalls = @ + 1], v)

\* Mutant of ContinuationM: the continuation runs but does not dispatch.
ContinuationSkipsM(M) ==
    LET v == Head(M.microtasks)
    IN [Fresh(M, v, "microtask") EXCEPT !.microtasks = Tail(@)]

\* The continuation of promise.then(dispatch).
ContinuationM(M) ==
    LET v == Head(M.microtasks)
    IN DispatchM([Fresh(M, v, "microtask") EXCEPT !.microtasks = Tail(@)], v)

\* Mutant of ReplaceMutatorM: '@@INIT' is dispatched but the new mutator is
\* not installed.
ReplaceMutatorKeepsOldM(M, m) ==
    DispatchM(Push([Fresh(M, INIT, "api") EXCEPT !.asked = m, !.ncalls = @ + 1,
                                          !.patched = TRUE],
                   ApiFrame("replaceMutator")),
              INIT)

\* store.replaceMutator(m)
ReplaceMutatorM(M, m) ==
    DispatchM(Push([Fresh(M, INIT, "api") EXCEPT !.mutator = m, !.asked = m,
                                          !.ncalls = @ + 1, !.patched = TRUE],
                   ApiFrame("replaceMutator")),
              INIT)

\* store.replaceEffect(e)
ReplaceEffectCallM(M, e) ==
    ReplaceEffectM([Fresh(M, Falsy, "api") EXCEPT !.ncalls = @ + 1,
                                           !.patched = TRUE], e)

-----------------------------------------------------------------------------
(* The state machine *)

Init ==
    /\ cfg \in Configs
    /\ pc = "construct"
    /\ state = cfg.initial
    /\ mutator = cfg.mutator
    /\ run = "unset"
    /\ is_mutating = 0
    /\ depth = 0
    /\ stack = <<>>
    /\ ret = Undef
    /\ exc = "none"
    /\ microtasks = <<>>
    /\ sel = NoSelector
    /\ error = "none"
    /\ trace = <<>>
    /\ top = Falsy
    /\ origin = "api"
    /\ ncalls = 0
    /\ net = 0
    /\ patched = FALSE
    /\ errors = 0
    /\ txPre = cfg.initial
    /\ txAborted = FALSE
    /\ asked = cfg.mutator
    /\ askedEffect = "unset"
    /\ notified = <<>>
    /\ memos = <<>>
    /\ composed = Undef
    /\ ncombine = 0
    /\ nevals = 0
    /\ changed = FALSE
    /\ input = Undef
    /\ output = Undef

Idle(M) == M.stack = <<>> /\ M.exc = "none"
Running(M, kind) ==
    /\ M.stack # <<>>
    /\ M.exc = "none"
    /\ TopFrame(M).k = kind

CreateStore ==
    /\ pc = "construct"
    /\ Commit(CreateStoreM(Mach))

Dispatch ==
    /\ pc = "ready" /\ Idle(Mach) /\ ncalls < MaxCalls
    /\ \E v \in TopValues : Commit(DispatchCallM(Mach, v))

Continuation ==
    /\ pc = "ready" /\ Idle(Mach) /\ microtasks # <<>>
    /\ Commit(ContinuationM(Mach))

ReplaceMutator ==
    /\ pc = "ready" /\ Idle(Mach) /\ ncalls < MaxCalls
    /\ \E c \in Configs : Commit(ReplaceMutatorM(Mach, c.mutator))

ReplaceEffect ==
    /\ pc = "ready" /\ Idle(Mach) /\ ncalls < MaxCalls
    /\ \E e \in {"none", "log", "chain", "chain+log"} :
          Commit(ReplaceEffectCallM(Mach, e))

ApiReturn ==
    /\ \/ Running(Mach, "createStore")
       \/ Running(Mach, "replaceMutator")
    /\ Commit(ApiReturnM(Mach))

ForEachStep == Running(Mach, "forEach") /\ Commit(ForEachStepM(Mach))

ThunkStep == Running(Mach, "thunk") /\ Commit(ThunkStepM(Mach))

RunMutate ==
    /\ Running(Mach, "run") /\ TopFrame(Mach).phase = "mutate"
    /\ Commit(RunMutateM(Mach))

RunEffect ==
    /\ Running(Mach, "run") /\ TopFrame(Mach).phase = "effect"
    /\ Commit(RunEffectM(Mach))

RunReturn ==
    /\ Running(Mach, "run") /\ TopFrame(Mach).phase = "done"
    /\ Commit(RunReturnM(Mach))

EffectStep == Running(Mach, "effect") /\ Commit(EffectStepM(Mach))

MutatorEnter ==
    /\ Running(Mach, "mutator") /\ TopFrame(Mach).phase = "enter"
    /\ Commit(MutatorEnterM(Mach))

MutatorBody ==
    /\ Running(Mach, "mutator") /\ TopFrame(Mach).phase = "body"
    /\ Commit(MutatorBodyM(Mach))

MutatorAssign ==
    /\ Running(Mach, "mutator") /\ TopFrame(Mach).phase = "assign"
    /\ Commit(MutatorAssignM(Mach))

MutatorReturn ==
    /\ Running(Mach, "mutator") /\ TopFrame(Mach).phase = "return"
    /\ Commit(MutatorReturnM(Mach))

\* finally { is_mutating = 0 }, on return and on exception alike
MutateFinally ==
    /\ stack # <<>> /\ TopFrame(Mach).k = "mutate"
    /\ Commit(MutateFinallyM(Mach))

Unwind ==
    /\ exc # "none" /\ stack # <<>> /\ TopFrame(Mach).k # "mutate"
    /\ Commit(UnwindM(Mach))

Uncaught ==
    /\ exc # "none" /\ stack = <<>>
    /\ Commit(UncaughtM(Mach))

Next ==
    \/ CreateStore
    \/ Dispatch
    \/ Continuation
    \/ ReplaceMutator
    \/ ReplaceEffect
    \/ ApiReturn
    \/ ForEachStep
    \/ ThunkStep
    \/ RunMutate
    \/ RunEffect
    \/ RunReturn
    \/ EffectStep
    \/ MutatorEnter
    \/ MutatorBody
    \/ MutatorAssign
    \/ MutatorReturn
    \/ MutateFinally
    \/ Unwind
    \/ Uncaught

Spec == Init /\ [][Next]_vars

\* JavaScript runs a call to completion, and the event loop runs every queued
\* promise continuation; the application is free to stop calling the store.
RunSteps ==
    \/ ApiReturn \/ ForEachStep \/ ThunkStep \/ RunMutate \/ RunEffect
    \/ RunReturn \/ EffectStep \/ MutatorEnter \/ MutatorBody
    \/ MutatorAssign \/ MutatorReturn \/ MutateFinally \/ Unwind \/ Uncaught

\* The store the progress property is checked on: the README counter store
\* (any mutator and any effect can still be installed on it afterwards, by
\* replaceMutator and replaceEffect).
FairInit == Init /\ cfg.name = "readme"

FairSpec ==
    FairInit /\ [][Next]_vars /\ WF_vars(RunSteps) /\ WF_vars(Continuation)

-----------------------------------------------------------------------------
(* Running a call to completion: the steps above are deterministic while   *)
(* JavaScript is running.                                                  *)

StepM(M) ==
    IF M.stack = <<>> THEN UncaughtM(M)
    ELSE LET fr == TopFrame(M)
         IN IF fr.k = "mutate" THEN MutateFinallyM(M)
            ELSE IF M.exc # "none" THEN UnwindM(M)
            ELSE IF fr.k = "forEach" THEN ForEachStepM(M)
            ELSE IF fr.k = "thunk" THEN ThunkStepM(M)
            ELSE IF fr.k = "effect" THEN EffectStepM(M)
            ELSE IF fr.k = "run"
                 THEN IF fr.phase = "mutate" THEN RunMutateM(M)
                      ELSE IF fr.phase = "effect" THEN RunEffectM(M)
                      ELSE RunReturnM(M)
            ELSE IF fr.k = "mutator"
                 THEN IF fr.phase = "enter" THEN MutatorEnterM(M)
                      ELSE IF fr.phase = "body" THEN MutatorBodyM(M)
                      ELSE IF fr.phase = "assign" THEN MutatorAssignM(M)
                      ELSE MutatorReturnM(M)
            ELSE ApiReturnM(M)

RECURSIVE Settle(_)
Settle(M) == IF Idle(M) THEN M ELSE Settle(StepM(M))

-----------------------------------------------------------------------------
(* The selector functions, used by the application outside a store call   *)

\* Bounds: evaluations of the composed selector, the numbers a mutation
\* writes, and the runs of one memo.
MaxEvals == 2
MaxField == 1
MaxRuns == 3

\* The arguments of createStore, before it runs.
ConstructM(c) ==
    [cfg |-> c, pc |-> "construct", state |-> c.initial,
     mutator |-> c.mutator, run |-> "unset", is_mutating |-> 0, depth |-> 0,
     stack |-> <<>>, ret |-> Undef, exc |-> "none", microtasks |-> <<>>,
     sel |-> NoSelector, error |-> "none", trace |-> <<>>, top |-> Falsy,
     origin |-> "api", ncalls |-> 0, net |-> 0, patched |-> FALSE,
     errors |-> 0, txPre |-> c.initial, txAborted |-> FALSE,
     asked |-> c.mutator, askedEffect |-> "unset", notified |-> <<>>]

\* The store the selectors are applied to: createStore(combineMutators({a,
\* b}), {}) after it returned, state = {a: {value: 0}, b: {value: 0}}.
SelectorStore ==
    Settle(CreateStoreM(ConstructM(CHOOSE c \in Configs : c.name = "combined")))

storeVars == <<cfg, pc, mutator, run, is_mutating, depth, stack, ret, exc,
               microtasks, sel, error, trace, top, origin, ncalls, net,
               patched, errors, txPre, txAborted, asked, askedEffect,
               notified>>

\* The selectors handed to composeSelectors: [s => s.a.value, s =>
\* s.b.value], each by the path it reads.
Items == << <<"a", "value">>, <<"b", "value">> >>

\* The combiner handed to composeSelectors: (a, b) => a() + b(); it gets
\* the accessors positionally and reads each.
Combiner(signals) == Num(signals[1].value.n + signals[2].value.n)

\* createMemo(() => s(state)): the memo runs s once when it is created and
\* tracks the path s reads.
CreateMemo(path) == [reads |-> path, value |-> GetPath(state, path), runs |-> 1]

\* The paths a mutation may write a number to; <<"value">> is read by no
\* selector.
WrittenPaths == {<<"a", "value">>, <<"b", "value">>, <<"value">>}

\* The application evaluates composeSelectors(items, combiner)(store.state):
\* return combiner(...items.map(s => createMemo(() => s(state))))
ComposedCall ==
    /\ nevals < MaxEvals
    /\ LET signals == [i \in 1..Len(Items) |-> CreateMemo(Items[i])]
       IN /\ memos' = memos \o signals
          /\ composed' = Combiner(signals)
    /\ ncombine' = ncombine + 1
    /\ nevals' = nevals + 1
    /\ changed' = FALSE
    /\ UNCHANGED <<state, storeVars, input, output>>

\* A mutation transaction writes the number n at path p: the memos that read
\* p run again when the value is a different one.
MutateField ==
    /\ \A j \in 1..Len(memos) : memos[j].runs < MaxRuns
    /\ \E p \in WrittenPaths, n \in 0..MaxField :
          LET differs == ~StrictEquals(GetPath(state, p), Num(n))
          IN /\ state' = SetPath(state, p, Num(n))
             /\ memos' = [j \in 1..Len(memos) |->
                            IF memos[j].reads = p /\ differs
                            THEN [memos[j] EXCEPT !.value = Num(n),
                                                  !.runs = @ + 1]
                            ELSE memos[j]]
             /\ changed' = (changed \/
                              (differs /\ \E i \in 1..Len(Items) : Items[i] = p))
    /\ UNCHANGED <<composed, ncombine, nevals, storeVars, input, output>>

(* access(state) *)

\* The values access() is applied to: null, accessor functions (by what they
\* return) and arrays, besides numbers, undefined and records (Obj).
Null == [t |-> "null"]
Accessor(r) == [t |-> "function", returns |-> r]
List(items) == [t |-> "array", items |-> items]
Record(a, b) == Obj([NoFields EXCEPT !["a"] = a, !["b"] = b])

\* typeof v
TypeOf(v) ==
    IF v.t = "function" THEN "function"
    ELSE IF v.t \in {"object", "array", "null"} THEN "object"
    ELSE IF v.t = "undefined" THEN "undefined"
    ELSE "number"

\* access(state): unwrap once when state is a function; then, when typeof
\* state is 'object', map an array through access, and copy any other object
\* key by key (for-in) into a new {} (null has no keys).
RECURSIVE access(_)
access(v) ==
    LET unwrapped == IF TypeOf(v) = "function" THEN v.returns ELSE v
    IN IF TypeOf(unwrapped) = "object"
       THEN IF unwrapped.t = "array"
            THEN List([i \in 1..Len(unwrapped.items) |->
                         access(unwrapped.items[i])])
            ELSE Obj([k \in AllKeys |->
                        IF unwrapped.t = "object" /\ unwrapped.f[k] # Undef
                        THEN access(unwrapped.f[k])
                        ELSE Undef])
       ELSE unwrapped

\* The inputs: leaves, containers of leaves, and containers and accessors of
\* those.
Leaves ==
    {Num(1), Undef, Null, Accessor(Num(2)), Accessor(Null),
     Accessor(Accessor(Num(2)))}

Containers ==
    {List(<<>>), Obj(NoFields)}
    \cup {List(<<x>>) : x \in Leaves}
    \cup {List(<<x, y>>) : x, y \in {Num(1), Null, Accessor(Num(2))}}
    \cup {Record(x, y) : x, y \in Leaves \ {Undef}}

AccessInputs ==
    Leaves \cup Containers
    \cup {Accessor(c) : c \in Containers}
    \cup {List(<<c, Num(1)>>) : c \in Containers}
    \cup {Record(c, Accessor(c)) : c \in Containers}

\* access(input) has not returned yet.
Pending == [t |-> "pending"]

\* The application calls access(input).
AccessCall ==
    /\ output = Pending
    /\ output' = access(input)
    /\ UNCHANGED <<state, storeVars, memos, composed, ncombine, nevals,
                   changed, input>>

\* createStore has returned and nothing has been called since.
StoreReady ==
    /\ cfg = SelectorStore.cfg
    /\ pc = SelectorStore.pc
    /\ state = SelectorStore.state
    /\ mutator = SelectorStore.mutator
    /\ run = SelectorStore.run
    /\ is_mutating = SelectorStore.is_mutating
    /\ depth = SelectorStore.depth
    /\ stack = SelectorStore.stack
    /\ ret = SelectorStore.ret
    /\ exc = SelectorStore.exc
    /\ microtasks = SelectorStore.microtasks
    /\ sel = SelectorStore.sel
    /\ error = SelectorStore.error
    /\ trace = SelectorStore.trace
    /\ top = SelectorStore.top
    /\ origin = SelectorStore.origin
    /\ ncalls = SelectorStore.ncalls
    /\ net = SelectorStore.net
    /\ patched = SelectorStore.patched
    /\ errors = SelectorStore.errors
    /\ txPre = SelectorStore.txPre
    /\ txAborted = SelectorStore.txAborted
    /\ asked = SelectorStore.asked
    /\ askedEffect = SelectorStore.askedEffect
    /\ notified = SelectorStore.notified

NoComposed ==
    /\ memos = <<>>
    /\ composed = Undef
    /\ ncombine = 0
    /\ nevals = 0
    /\ changed = FALSE

SelectorInit ==
    /\ StoreReady
    /\ NoComposed
    /\ input = Undef
    /\ output = Undef

SelectorNext ==
    \/ ComposedCall
    \/ MutateField

\* composeSelectors: the application evaluates the composed selector between
\* mutations of the store.
SelectorSpec == SelectorInit /\ [][SelectorNext]_vars

AccessInit ==
    /\ StoreReady
    /\ NoComposed
    /\ input \in AccessInputs
    /\ output = Pending

AccessNext == AccessCall

\* access: the application calls it once on a value of its own.
AccessSpec == AccessInit /\ [][AccessNext]_vars

-----------------------------------------------------------------------------
(* Properties *)

HasMutateFrame == \E j \in 1..Len(stack) : stack[j].k = "mutate"

\* The innermost frame is about to call dispatch.
CallsDispatch ==
    /\ stack # <<>>
    /\ exc = "none"
    /\ LET fr == TopFrame(Mach)
           ops == FrameOps(fr)
       IN /\ fr.k \in {"mutator", "effect", "thunk"}
          /\ fr.i <= Len(ops)
          /\ ops[fr.i].op = "dispatch"

\* The value the innermost frame is about to dispatch.
CalledValue == FrameOps(TopFrame(Mach))[TopFrame(Mach).i].v

IsPlain(v) == v.truthy /\ v.tof = "object" /\ TypeTruthy(v.type)

\* The action types the mutator was invoked with during the current
\* top-level call, in order (all of them, or those not dispatched by an
\* effect).
Mutations(tr) ==
    LET evs == SelectSeq(tr, LAMBDA ev : ev.e = "mutate")
    IN [j \in 1..Len(evs) |-> evs[j].type]
OwnMutations(tr) ==
    LET evs == SelectSeq(tr, LAMBDA ev : ev.e = "mutate" /\ ~ev.viaEffect)
    IN [j \in 1..Len(evs) |-> evs[j].type]
Effects(tr) == SelectSeq(tr, LAMBDA ev : ev.e = "effect")

\* C1: a dispatch call made while the mutator is executing (is_mutating = 1)
\* throws the re-entrant-dispatch error to its caller, whatever the value,
\* and does nothing else: no frame is entered (so neither the mutator nor
\* the effect is invoked), and state, batch depth and the promise queue are
\* untouched.
C1_ReentrantDispatchThrows ==
    [][(CallsDispatch /\ is_mutating = 1) =>
          /\ exc' = "reentrant"
          /\ Len(stack') = Len(stack)
          /\ state' = state
          /\ depth' = depth
          /\ microtasks' = microtasks
          /\ trace' = Append(trace, [e |-> "dispatch", v |-> CalledValue,
                                     rejected |-> TRUE])]_vars

\* C1 witness: a mutator has just dispatched a falsy value and got the error.
C1_Witness ==
    /\ is_mutating = 1
    /\ exc = "reentrant"
    /\ stack # <<>>
    /\ TopFrame(Mach).k = "mutator"
    /\ trace[Len(trace)] = [e |-> "dispatch", v |-> Falsy, rejected |-> TRUE]

\* C2: the guard is released when the transaction ends, normally or by an
\* exception: is_mutating is 0 whenever mutate is not on the stack; a
\* top-level dispatch is therefore never rejected, and a top-level plain
\* action has been handed to the mutator once its call is over.
C2_GuardReleased ==
    /\ (~HasMutateFrame => is_mutating = 0)
    /\ (trace # <<>> /\ pc = "ready" => ~trace[1].rejected)
    /\ (pc = "ready" /\ Idle(Mach) /\ origin = "call" /\ IsPlain(top)
          => Len(Mutations(trace)) >= 1 /\ Mutations(trace)[1] = top.type)

\* C2 witness: after a top-level call that ended in an exception, a plain
\* action dispatched at top level has been applied.
C2_Witness ==
    /\ pc = "ready" /\ Idle(Mach)
    /\ errors >= 1 /\ error = "none"
    /\ origin = "call" /\ top = Inc
    /\ Mutations(trace) = <<Str("increment")>>
    /\ is_mutating = 0

\* C3 (as claimed): when a transaction ends by an exception, the state seen
\* afterwards is the state from before the transaction.
C3_NoPartialWrites ==
    (is_mutating = 0 /\ txAborted) => state = txPre

IsPrefixSeq(p, q) == Len(p) <= Len(q) /\ SubSeq(q, 1, Len(p)) = p

\* The plain actions a dispatched value holds, read depth-first and left to
\* right through arrays and through the calls of a thunk.
RECURSIVE Flatten(_)
RECURSIVE FlattenSeq(_)
Flatten(v) ==
    IF ~v.truthy THEN <<>>
    ELSE IF IsPlain(v) THEN <<v.type>>
    ELSE IF v.isArray THEN FlattenSeq(v.items)
    ELSE IF v.thenable THEN <<>>
    ELSE IF v.tof = "function" THEN FlattenSeq(v.calls)
    ELSE <<>>
FlattenSeq(vs) ==
    IF vs = <<>> THEN <<>> ELSE Flatten(Head(vs)) \o FlattenSeq(Tail(vs))

\* dispatch(X) followed, when it returned, by dispatch(Y).
OneThenOther(M, X, Y) ==
    LET RX == Settle(DispatchCallM(M, X))
    IN IF RX.error = "none" THEN Settle(DispatchCallM(RX, Y)) ELSE RX

C4_Order ==
    /\ IsPrefixSeq(OwnMutations(trace), Flatten(top))
    /\ (Idle(Mach) /\ error = "none" /\ pc = "ready"
          => OwnMutations(trace) = Flatten(top))

C4_Pairs ==
    (pc = "ready" /\ Idle(Mach)) =>
        \A X, Y \in {Inc, Dec, Fail, UsersAdd} :
            Settle(DispatchCallM(Mach, Array(<<X, Y>>))).state
                = OneThenOther(Mach, X, Y).state

\* C4: the plain actions of a dispatched value (array elements, nested
\* arrays depth-first, the successive dispatch calls of a thunk) reach the
\* mutator in exactly their left-to-right order; state changes only inside a
\* mutator invocation, so each invocation starts from the state the previous
\* one left; and dispatching [X, Y] ends in the same state as dispatch(X)
\* followed by dispatch(Y).
C4_SequentialOrder ==
    /\ [](C4_Order /\ C4_Pairs)
    /\ [][(is_mutating = 0 /\ is_mutating' = 0) => state' = state]_vars

\* C4 witness: a nested array has been dispatched and applied in order.
C4_Witness ==
    /\ pc = "ready" /\ Idle(Mach) /\ error = "none"
    /\ top = Array(<<Array(<<Dec>>), Inc, UsersAdd>>)
    /\ OwnMutations(trace)
         = <<Str("decrement"), Str("increment"), Str("users/add")>>

RECURSIVE Drain(_)
Drain(M) ==
    IF M.microtasks = <<>> THEN M ELSE Drain(Settle(ContinuationM(M)))

PlainActions ==
    {Inc, Dec, Fail, UsersAdd, FortyTwo, ActionWith(Str("nest"), Inc),
     ActionWith(Str("nestTry"), Inc)}

\* C5: from any state of the store, a plain action A dispatched directly, as
\* [A], or as Promise.resolve(A) (once its continuation has run) leaves the
\* same state, and the mutator is invoked with A exactly once in each case;
\* the promise applies nothing before its continuation runs.
C5_VariantsAgree ==
    (pc = "ready" /\ Idle(Mach) /\ microtasks = <<>>) =>
        \A A \in PlainActions :
            LET D == Settle(DispatchCallM(Mach, A))
                R == Settle(DispatchCallM(Mach, Array(<<A>>)))
                P0 == Settle(DispatchCallM(Mach, ResolvedPromise(A)))
                P == Drain(P0)
            IN /\ D.state = R.state
               /\ D.state = P.state
               /\ OwnMutations(D.trace) = <<A.type>>
               /\ OwnMutations(R.trace) = <<A.type>>
               /\ Mutations(P0.trace) = <<>>
               /\ P0.state = state
               /\ OwnMutations(P.trace) = <<A.type>>

\* C5 witness: the continuation of a resolved promise has applied increment.
C5_Witness ==
    /\ pc = "ready" /\ Idle(Mach) /\ error = "none"
    /\ origin = "microtask" /\ top = Inc
    /\ OwnMutations(trace) = <<Str("increment")>>

\* C6: for createStore(mutator, {value: 0}) with the README counter mutator,
\* once a call is over state.value is the number of increments minus the
\* number of decrements dispatched so far (singly, in arrays, in thunks);
\* '@@INIT' leaves value at 0.
C6_CounterValue ==
    (cfg.name = "readme" /\ ~patched /\ pc = "ready" /\ Idle(Mach))
        => state = CounterObject(net)

\* C6 witness: dispatch(increment) then dispatch([increment, decrement])
\* leaves value at 1.
C6_Witness ==
    /\ cfg.name = "readme" /\ ~patched /\ pc = "ready" /\ Idle(Mach)
    /\ ncalls = 2 /\ top = Array(<<Inc, Dec>>)
    /\ state = CounterObject(1)

AtCombineReturn(filtered) ==
    /\ Running(Mach, "mutator")
    /\ IsCombine(TopFrame(Mach).m)
    /\ TopFrame(Mach).m.body.filtered = filtered
    /\ TopFrame(Mach).phase = "return"

\* C7 (as claimed): after createStore(combineMutators({a, b}), {}) both
\* fields hold their defaults, and every action invokes a then b, once each.
C7_CombinedDefaults ==
    /\ (pc = "ready" /\ ncalls = 0 /\ cfg.mutator.k = "withDefault"
          /\ IsCombine(cfg.mutator) /\ ~cfg.mutator.body.filtered)
        => \A k \in {"a", "b"} :
              state.f[k] = DefaultState(cfg.mutator.body.map[k].def)
    /\ (AtCombineReturn(FALSE) /\ TopFrame(Mach).m.body.ins = <<"a", "b">>)
        => TopFrame(Mach).called = <<"a", "b">>

\* C8: createStore runs '@@INIT' through mutate-then-effect exactly once
\* before it returns: when it returns the mutator has been invoked once, with
\* '@@INIT', and a given effect has been invoked once, with '@@INIT', after
\* the mutation (guard released), seeing the state the mutator left.
C8_InitOnce ==
    (pc = "ready" /\ ncalls = 0) =>
        /\ Mutations(trace) = <<Str("@@INIT")>>
        /\ IF cfg.effect = "none" THEN Effects(trace) = <<>>
           ELSE /\ Len(Effects(trace)) = 1
                /\ trace[Len(trace)].e = "effect"
                /\ Effects(trace)[1].name = cfg.effect
                /\ Effects(trace)[1].type = Str("@@INIT")
                /\ Effects(trace)[1].mutating = 0
                /\ Effects(trace)[1].seen = state

\* C8 witness: the effect of the combined store saw field a filled in.
C8_Witness ==
    /\ pc = "ready" /\ ncalls = 0 /\ cfg.name = "combined"
    /\ Len(Effects(trace)) = 1
    /\ Effects(trace)[1].seen.f["a"] = CounterObject(0)

\* key is a literal prefix of the string s.
HasPrefix(s, key) ==
    \E n \in 0..Len(Chars(s)) : SubSeq(Chars(s), 1, n) = Chars(key)

\* The field mutators an action is for.
Wanted(body, action) ==
    {k \in DOMAIN body.map :
        action.type.tof # "string" \/ HasPrefix(action.type.s, k)}

Position(seq, x) == CHOOSE j \in 1..Len(seq) : seq[j] = x

\* x comes before y in the enumeration order of the keys of a map written
\* in the order ins.
KeyBefore(ins, x, y) ==
    IF IsIndexKey(x) /\ IsIndexKey(y) THEN IndexValue(x) < IndexValue(y)
    ELSE IF IsIndexKey(x) THEN TRUE
    ELSE IF IsIndexKey(y) THEN FALSE
    ELSE Position(ins, x) < Position(ins, y)

\* C9 (as claimed): a combineMutatorsFiltered mutator invokes exactly the
\* field mutators whose key is a prefix of a string type (all of them for a
\* non-string type), once each, in key insertion order.
C9_InsertionOrder ==
    AtCombineReturn(TRUE) =>
        LET fr == TopFrame(Mach)
            want == Wanted(fr.m.body, fr.action)
        IN fr.called = SelectSeq(fr.m.body.ins, LAMBDA k : k \in want)

\* C9 (amended): ... once each, in the order Object.keys gives the map's
\* keys: integer-like keys ascending first, then the others in insertion
\* order.
C9_FilteredRouting ==
    AtCombineReturn(TRUE) =>
        LET fr == TopFrame(Mach)
            c == fr.called
            want == Wanted(fr.m.body, fr.action)
        IN /\ {c[j] : j \in 1..Len(c)} = want
           /\ Len(c) = Cardinality(want)
           /\ \A p, q \in 1..Len(c) :
                 p < q => KeyBefore(fr.m.body.ins, c[p], c[q])

\* C9 witness: {type: 'users/add'} has invoked users alone.
C9_Witness ==
    /\ AtCombineReturn(TRUE)
    /\ TopFrame(Mach).action = UsersAdd
    /\ TopFrame(Mach).m.body.ins = <<"users", "cartItems">>
    /\ TopFrame(Mach).called = <<"users">>

\* What a body that returns normally does to state.value.
Delta(name, action) ==
    IF name \in {"counter", "risky"} /\ action.type = Str("increment") THEN 1
    ELSE IF name \in {"counter", "risky"} /\ action.type = Str("decrement")
         THEN -1
    ELSE IF name = "risky" /\ action.type \in {Str("nestTry"), Str("rewireTry")}
         THEN 1
    ELSE IF name = "users" /\ action.type = Str("users/add") THEN 1
    ELSE 0

BodyApplied(v, name, action) ==
    IF v.t = "object" /\ Delta(name, action) # 0
    THEN IF v.f["value"].t = "number"
         THEN SetPath(v, <<"value">>,
                      Num(v.f["value"].n + Delta(name, action)))
         ELSE SetPath(v, <<"value">>, NaN)
    ELSE v

\* A call of mutatorWithDefault(makeDefault, body) is about to return.
ReturningUser ==
    /\ Running(Mach, "mutator")
    /\ TopFrame(Mach).phase = "return"
    /\ TopFrame(Mach).m.k = "withDefault"
    /\ ~IsCombine(TopFrame(Mach).m)

\* C10: m(undefined, action) calls makeDefault once, applies body once to
\* the fresh value and returns it; m(existing, action) applies body once to
\* existing in place, does not call makeDefault and returns undefined.
C10_DefaultSynthesis ==
    [][ReturningUser =>
          LET fr == TopFrame(Mach)
              name == fr.m.body.name
          IN /\ fr.nbody = 1
             /\ (fr.arg0 = Undef =>
                    /\ fr.ndefault = 1
                    /\ ret' = BodyApplied(DefaultState(fr.m.def), name,
                                          fr.action))
             /\ (Truthy(fr.arg0) =>
                    /\ fr.ndefault = 0
                    /\ ret' = Undef
                    /\ Read(Mach, fr.root, fr.path)
                         = BodyApplied(fr.arg0, name, fr.action))]_vars

\* C10 witness: the users mutator, called without state for 'users/add', is
\* about to return its default with one increment applied.
C10_Witness ==
    /\ ReturningUser
    /\ TopFrame(Mach).arg0 = Undef
    /\ TopFrame(Mach).action = UsersAdd
    /\ TopFrame(Mach).fresh = CounterObject(1)

\* replaceMutator has just returned.
AfterReplaceMutator ==
    /\ pc = "ready" /\ Idle(Mach)
    /\ origin = "api" /\ top = INIT /\ ncalls >= 1

\* The fields an '@@INIT' through mutator m may fill in: the keys of an
\* unfiltered combineMutators map.
InitFills(m) ==
    IF IsCombine(m) /\ ~m.body.filtered THEN DOMAIN m.body.map ELSE {}

\* C11: replaceMutator(newMutator), called while no mutation is running,
\* installs newMutator and dispatches '@@INIT' once through it; every field
\* present before keeps its value (never replaced by a default), only absent
\* fields of the new combined map are filled, and every later invocation of
\* the mutator goes to newMutator (an invocation that was running when a
\* mutator body called replaceMutator is not a later one).
C11_ReplaceMutator ==
    /\ \A j \in 1..Len(trace) :
          trace[j].e = "mutate" =>
              \/ trace[j].by = asked
              \/ \E i \in (j + 1)..Len(trace) : trace[i].e = "swap"
    /\ AfterReplaceMutator =>
          /\ Mutations(trace) = <<Str("@@INIT")>>
          /\ mutator = asked
          /\ error = "none"
          /\ \A k \in AllKeys :
                /\ txPre.f[k] # Undef => state.f[k] = txPre.f[k]
                /\ state.f[k] # txPre.f[k] => k \in InitFills(asked)

\* C11 witness: the store built from {a, b} had a.value = -1; replaceMutator
\* with the README mutator (which touches only `value`) has returned, its
\* '@@INIT' went through the README mutator, and a is unchanged.
C11_Witness ==
    /\ AfterReplaceMutator
    /\ cfg.name = "combined" /\ asked = Readme
    /\ state.f["a"] = CounterObject(-1)
    /\ trace[2].by = Readme

\* The application calls store.replaceEffect while the store is idle.
ReplaceEffectCallStep ==
    /\ pc = "ready" /\ Idle(Mach)
    /\ origin' = "api" /\ top' = Falsy /\ ncalls' = ncalls + 1

\* The running mutator body is about to call store.replaceEffect.
CallsReplaceEffect ==
    /\ Running(Mach, "mutator")
    /\ TopFrame(Mach).phase = "body"
    /\ ~IsCombine(TopFrame(Mach).m)
    /\ TopFrame(Mach).i <= Len(UserOps(TopFrame(Mach)))
    /\ UserOps(TopFrame(Mach))[TopFrame(Mach).i].op = "replaceEffect"

\* run(action) is about to call mutate(action): processing of action starts.
StartsProcessing == Running(Mach, "run") /\ TopFrame(Mach).phase = "mutate"

\* The mutate event an effect event at position j belongs to: the nearest
\* one before it.
MutateBefore(tr, j) ==
    CHOOSE i \in 1..j :
        /\ tr[i].e = "mutate"
        /\ \A m \in (i + 1)..(j - 1) : tr[m].e # "mutate"

\* Every effect invocation is the effect installed when its action's
\* processing started, for that action.
EffectsAsInstalled ==
    \A j \in 1..Len(trace) :
        trace[j].e = "effect" =>
            /\ \E i \in 1..(j - 1) : trace[i].e = "mutate"
            /\ trace[j].name = trace[MutateBefore(trace, j)].inst
            /\ trace[j].type = trace[MutateBefore(trace, j)].type

\* Once a call is over without an exception, every processed action that
\* started with an effect installed has been followed by an effect
\* invocation, before any other action was processed.
EffectsDelivered ==
    (Idle(Mach) /\ error = "none") =>
        \A i \in 1..Len(trace) :
            (trace[i].e = "mutate" /\ trace[i].inst # "none") =>
                \E j \in (i + 1)..Len(trace) :
                    /\ trace[j].e = "effect"
                    /\ \A m \in (i + 1)..(j - 1) : trace[m].e # "mutate"

\* C12: replaceEffect(newEffect) only changes the installed effect: no
\* dispatch, no mutator or effect invocation, state unchanged.  An action
\* whose processing starts afterwards gets newEffect (none for an empty
\* one); an action being processed during the call keeps the effect that
\* was installed when its processing started.
C12_ReplaceEffect ==
    /\ [][ReplaceEffectCallStep =>
            /\ run' = askedEffect'
            /\ stack' = <<>> /\ trace' = <<>>
            /\ state' = state /\ mutator' = mutator
            /\ microtasks' = microtasks /\ depth' = depth
            /\ is_mutating' = is_mutating]_vars
    /\ [][CallsReplaceEffect =>
            /\ run' = UserOps(TopFrame(Mach))[TopFrame(Mach).i].effect
            /\ askedEffect' = run'
            /\ Len(stack') = Len(stack) /\ trace' = trace
            /\ state' = state /\ mutator' = mutator /\ exc' = "none"
            /\ microtasks' = microtasks /\ depth' = depth]_vars
    /\ [][StartsProcessing =>
            /\ trace'[Len(trace')].e = "mutate"
            /\ trace'[Len(trace')].inst = askedEffect]_vars
    /\ [](EffectsAsInstalled /\ EffectsDelivered)

\* C12 witness: with the chain effect installed, the mutator of 'swap'
\* called replaceEffect(log) while 'swap' was being processed; 'swap' still
\* got the chain effect, and log is what is installed now.
C12_Witness ==
    /\ pc = "ready" /\ Idle(Mach) /\ error = "none"
    /\ top = Swap /\ run = "log"
    /\ Len(Effects(trace)) = 1
    /\ Effects(trace)[1].name = "chain"
    /\ Effects(trace)[1].type = Str("swap")

\* The transactions (run(action): mutator, then effect) in progress.
OpenTransactions == {j \in 1..Len(stack) : stack[j].k = "run"}

\* C13 (as claimed): transactions are strictly serialized: the mutator of an
\* action begins only when the transaction of every earlier action (mutator
\* body, then effect body) is over, so at most one transaction is in
\* progress, also for an action dispatched by an effect.
C13_Serialized == Cardinality(OpenTransactions) <= 1

\* What does hold: transactions dispatched by arrays and thunks follow one
\* another, and mutator executions never overlap; a second transaction is
\* open only inside the effect body of the one before it.
NestedOnlyInEffect ==
    /\ Cardinality({j \in 1..Len(stack) : stack[j].k = "mutate"}) <= 1
    /\ \A j \in OpenTransactions :
          j < Len(stack) =>
              \/ stack[j + 1].k = "mutate"
              \/ stack[j + 1].k = "effect"
    /\ \A i, j \in OpenTransactions :
          i < j => stack[i + 1].k = "effect"

Parts(tr) == SelectSeq(tr, LAMBDA ev : ev.e = "part")

\* The invocation of the combined effect a part event at position j belongs
\* to: the nearest effect event before it for the same action type.
EffectBefore(tr, j) ==
    CHOOSE i \in 1..j :
        /\ tr[i].e = "effect" /\ tr[i].name = tr[j].of
        /\ tr[i].type = tr[j].type
        /\ \A m \in (i + 1)..(j - 1) :
              ~(tr[m].e = "effect" /\ tr[m].type = tr[j].type)

RECURSIVE Repeat(_, _)
Repeat(seq, n) == IF n = 0 THEN <<>> ELSE seq \o Repeat(seq, n - 1)

\* The effects given to combineEffects are invoked in argument order, once
\* per invocation of the combined effect, with its action.
PartsInOrder ==
    \A T \in {Str("@@INIT"), Str("increment"), Str("decrement")} :
        LET ps == SelectSeq(trace,
                            LAMBDA ev : ev.e = "part" /\ ev.type = T)
            names == [j \in 1..Len(ps) |-> ps[j].name]
            n == Len(SelectSeq(trace,
                     LAMBDA ev : /\ ev.e = "effect" /\ ev.type = T
                                 /\ CombinedParts(ev.name) # <<>>))
        IN /\ IsPrefixSeq(names, Repeat(<<"chain", "log">>, n))
           /\ (Idle(Mach) /\ error = "none")
                 => names = Repeat(<<"chain", "log">>, n)

\* C14 (as claimed): the effect made by combineEffects(e1, ..., en) invokes
\* every ei once, in argument order, with its action, and every ei observes
\* the state as committed by that action's mutation, also when an earlier ei
\* dispatched a further action.
C14_SameSnapshot ==
    /\ PartsInOrder
    /\ \A j \in 1..Len(trace) :
          trace[j].e = "part" =>
              trace[j].seen = trace[EffectBefore(trace, j)].seen

\* The batch() callbacks in progress.
OpenBatches == {j \in 1..Len(stack) : IsBatchFrame(stack[j])}

\* C15: all synchronous work of one top-level dispatch runs inside one
\* outermost batch: a nested dispatch joins the open batch (the depth is the
\* number of dispatch callbacks in progress) and flushes nothing, observers
\* are notified at most once per top-level dispatch, after its last
\* mutation (they see the final state), exactly once when a call that
\* mutated returns normally, and the depth is zero when the call is over.
C15_SingleBatch ==
    /\ depth = Cardinality(OpenBatches)
    /\ (Idle(Mach) => depth = 0)
    /\ Len(notified) <= 1
    /\ (notified # <<>> =>
          /\ depth = 0
          /\ notified[1].muts = Len(Mutations(trace))
          /\ notified[1].state = state)
    /\ (Idle(Mach) /\ error = "none" /\ Mutations(trace) # <<>>
          => Len(notified) = 1)

\* C15 witness: a thunk dispatched increment and then [decrement, increment];
\* the observers were notified once, after the three mutations.
C15_Witness ==
    /\ pc = "ready" /\ Idle(Mach) /\ error = "none"
    /\ top = Thunk(<<Inc, Array(<<Dec, Inc>>)>>)
    /\ depth = 0
    /\ notified = <<[muts |-> 3, state |-> state]>>

\* A Promise-like, as dispatch sees it: not a plain action, not an array.
IsPromise(v) == v.truthy /\ ~IsPlain(v) /\ ~v.isArray /\ v.thenable

\* The application dispatches a promise.
DispatchesPromise ==
    /\ pc = "ready" /\ Idle(Mach)
    /\ origin' = "call" /\ IsPromise(top')

\* The event loop runs a queued continuation.
RunsContinuation ==
    /\ pc = "ready" /\ Idle(Mach)
    /\ origin' = "microtask"

\* C16: dispatching a promise mutates nothing and invokes no effect before
\* the call returns; the value it resolves to is queued, never dropped, and
\* dispatched exactly once by a later turn, when no mutator is executing (so
\* never rejected as re-entrant); under a fair event loop a resolved
\* increment is eventually applied to state.
C16_PromiseRedispatch ==
    /\ [][DispatchesPromise =>
            /\ stack' = <<>> /\ exc' = "none" /\ state' = state
            /\ trace' = <<[e |-> "dispatch", v |-> top', rejected |-> FALSE]>>
            /\ microtasks' = microtasks \o top'.resolves]_vars
    /\ [][RunsContinuation =>
            /\ microtasks # <<>>
            /\ top' = Head(microtasks)
            /\ microtasks' = Tail(microtasks)
            /\ is_mutating = 0
            /\ trace' # <<>>
            /\ trace'[1] = [e |-> "dispatch", v |-> Head(microtasks),
                            rejected |-> FALSE]]_vars
    /\ [][microtasks' # microtasks =>
            \/ DispatchesPromise
            \/ RunsContinuation]_vars
    /\ (microtasks # <<>> /\ Head(microtasks) = Inc)
          ~> (/\ origin = "microtask" /\ top = Inc /\ Idle(Mach)
              /\ error = "none"
              /\ Mutations(trace)[1] = Str("increment"))

\* C16 witness: the README counter store was handed Promise.resolve(increment)
\* and the continuation has applied it.
C16_Witness ==
    /\ pc = "ready" /\ Idle(Mach) /\ error = "none"
    /\ cfg.name = "readme" /\ ncalls = 1
    /\ origin = "microtask" /\ top = Inc /\ microtasks = <<>>
    /\ state = CounterObject(1)

\* C17: in the structured selector {k: s => s[k]} over store.state, the memo
\* of key k becomes stale only in a step that changes field k, is re-run only
\* when stale, at most once per top-level dispatch, and then holds the new
\* value; the other memos are not re-run and keep their cached value; after
\* a call every property reads as the current field, and no memo is left
\* stale as long as no call has thrown.
C17_PerKeyRecompute ==
    /\ [][\A k \in AllKeys :
            /\ (k \in sel'.stale /\ k \notin sel.stale)
                  => ~StrictEquals(state.f[k], state'.f[k])
            /\ sel'.reran[k] > sel.reran[k]
                  => /\ k \in sel.stale
                     /\ sel'.cache[k] = Shallow(state'.f[k])
            /\ (sel.made /\ sel'.cache[k] # sel.cache[k])
                  => sel'.reran[k] > sel.reran[k]]_vars
    /\ [](\A k \in AllKeys : sel.reran[k] <= 1)
    /\ []((pc = "ready" /\ Idle(Mach)) =>
            \A k \in AllKeys : ReadProperty(Mach, k) = Shallow(state.f[k]))
    /\ []((pc = "ready" /\ Idle(Mach) /\ errors = 0) => sel.stale = {})

\* C17 witness: on the README counter store an increment wrote only field
\* `value`: its memo was re-run once and holds 1, no other memo was re-run.
C17_Witness ==
    /\ pc = "ready" /\ Idle(Mach) /\ error = "none"
    /\ cfg.name = "readme" /\ ~patched /\ top = Inc /\ origin = "call"
    /\ sel.reran = [k \in AllKeys |-> IF k = "value" THEN 1 ELSE 0]
    /\ sel.cache["value"] = Num(1)
    /\ sel.cache["a"] = Undef

\* The first state of a top-level dispatch call: only the call itself has
\* been recorded.
JustDispatched ==
    /\ pc = "ready" /\ origin = "call" /\ exc = "none"
    /\ Len(trace) = 1

\* The branch dispatch took for the value `top`, read off what it started.
BranchTaken ==
    IF stack # <<>>
    THEN IF stack[1].k = "run" THEN "plain"
         ELSE IF stack[1].k = "forEach" THEN "array"
         ELSE "function"
    ELSE IF /\ top.resolves # <<>> /\ microtasks # <<>>
            /\ microtasks[Len(microtasks)] = top.resolves[1]
         THEN "promise"
         ELSE "noop"

\* The precedence the claim states.
ClaimedBranch(v) ==
    IF ~v.truthy THEN "noop"
    ELSE IF v.tof = "object" /\ TypeTruthy(v.type) THEN "plain"
    ELSE IF v.thenable THEN "promise"
    ELSE IF v.tof = "function" THEN "function"
    ELSE IF v.isArray THEN "array"
    ELSE "noop"

\* The precedence with arrays tested before Promise-likes.
ArrayFirstBranch(v) ==
    IF ~v.truthy THEN "noop"
    ELSE IF v.tof = "object" /\ TypeTruthy(v.type) THEN "plain"
    ELSE IF v.isArray THEN "array"
    ELSE IF v.thenable THEN "promise"
    ELSE IF v.tof = "function" THEN "function"
    ELSE "noop"

\* C18 (as claimed): dispatch takes the first matching branch in the order
\* falsy, plain action, Promise-like, function, array, and no other; a
\* truthy value matching none is a no-op.
C18_Precedence == JustDispatched => BranchTaken = ClaimedBranch(top)

\* What does hold: the same with the array test second.
ClassifiedArrayFirst == JustDispatched => BranchTaken = ArrayFirstBranch(top)

\* mutate(action) has returned to run(action), which holds an effect.
InvokesEffect ==
    /\ Running(Mach, "run")
    /\ TopFrame(Mach).phase = "effect"
    /\ TopFrame(Mach).effect # "none"

\* The effect invocations recorded for the mutate event at position i: those
\* before the next mutate event.
EffectsOf(tr, i) ==
    {j \in (i + 1)..Len(tr) :
        /\ tr[j].e = "effect"
        /\ \A m \in (i + 1)..(j - 1) : tr[m].e # "mutate"}

\* C19: with an effect installed, every processed plain action gets exactly
\* one effect invocation, inside the same dispatch call (its batch still
\* open), after its mutator finished and is_mutating is back to 0, with that
\* action and the state as the mutation left it; an action whose mutator
\* threw gets none.
C19_EffectAfterMutation ==
    /\ [][InvokesEffect =>
            /\ is_mutating = 0 /\ ~HasMutateFrame /\ depth >= 1
            /\ state' = state /\ depth' = depth
            /\ trace' = Append(trace,
                   [e |-> "effect", name |-> TopFrame(Mach).effect,
                    type |-> TopFrame(Mach).action.type, seen |-> state,
                    mutating |-> 0])
            /\ Len(stack') = Len(stack) + 1
            /\ stack'[Len(stack')].k = "effect"
            /\ stack'[Len(stack')].action = TopFrame(Mach).action]_vars
    /\ [](\A i \in 1..Len(trace) :
            trace[i].e = "mutate" =>
                /\ Cardinality(EffectsOf(trace, i)) <= 1
                /\ (trace[i].inst = "none" => EffectsOf(trace, i) = {})
                /\ (Idle(Mach) /\ error = "none" /\ trace[i].inst # "none")
                      => Cardinality(EffectsOf(trace, i)) = 1
                /\ \A j \in EffectsOf(trace, i) :
                      trace[j].type = trace[i].type)
    /\ []((Idle(Mach) /\ txAborted /\ Mutations(trace) # <<>>) =>
            \A i \in 1..Len(trace) :
                (trace[i].e = "mutate"
                   /\ \A m \in (i + 1)..Len(trace) : trace[m].e # "mutate")
                => EffectsOf(trace, i) = {})

\* C19 witness: on the combined store the chain effect ran once for
\* increment, saw a.value = 1, and its dispatch of decrement was accepted and
\* got its own effect invocation.
C19_Witness ==
    /\ pc = "ready" /\ Idle(Mach) /\ error = "none" /\ ~patched
    /\ cfg.name = "combined" /\ top = Inc
    /\ Len(Effects(trace)) = 2
    /\ Effects(trace)[1].type = Str("increment")
    /\ Effects(trace)[1].seen.f["a"] = CounterObject(1)
    /\ Effects(trace)[2].type = Str("decrement")
    /\ \A j \in 1..Len(trace) :
          trace[j].e = "dispatch" => ~trace[j].rejected

\* A combinator has got the result of mutators[key](state[key], action) in
\* `ret` and is at `if(!!res) { state[key] = res; }`.
AtAssign == Running(Mach, "mutator") /\ TopFrame(Mach).phase = "assign"

\* state[key] of the combinator at the top of the stack, now and after the
\* step.
FieldNow ==
    Read(Mach, TargetRoot(Mach),
         TargetPath(Mach) \o <<TopFrame(Mach).m.body.keys[TopFrame(Mach).i]>>)
FieldNext ==
    LET root == TargetRoot(Mach)
        path == TargetPath(Mach)
                  \o <<TopFrame(Mach).m.body.keys[TopFrame(Mach).i]>>
    IN IF root = 0 THEN GetPath(state', path)
       ELSE GetPath(stack'[root].fresh, path)

\* C20 (as claimed): in combineMutators and combineMutatorsFiltered a
\* non-nullish result of a field mutator (falsy ones such as 0 included) is
\* assigned to state[field]; a nullish result leaves state[field] as it is.
C20_NonNullishAssigned ==
    [][AtAssign =>
          IF ret # Undef THEN FieldNext = ret ELSE FieldNext = FieldNow]_vars

\* What does hold: a truthy result is assigned, any other leaves the field.
TruthyAssigned ==
    [][AtAssign =>
          IF Truthy(ret) THEN FieldNext = ret ELSE FieldNext = FieldNow]_vars


\* The installed store mutator is a combineMutatorsFiltered map.
IsFiltered(m) == IsCombine(m) /\ m.body.filtered

\* C21 (as claimed): after createStore, and after replaceMutator, with a
\* combineMutatorsFiltered mutator every key of the mutator map is present in
\* state: '@@INIT' has filled each omitted field with its default.
C21_FilteredInitFills ==
    /\ (pc = "ready" /\ ncalls = 0 /\ IsFiltered(cfg.mutator))
        => \A k \in DOMAIN cfg.mutator.body.map : state.f[k] # Undef
    /\ (AfterReplaceMutator /\ IsFiltered(asked))
        => \A k \in DOMAIN asked.body.map : state.f[k] # Undef

\* What the code does instead: '@@INIT' is a string that starts with no key
\* of the maps, so a filtered map invokes no field mutator for it and the
\* state is what it was before the call.
FilteredInitSkipsAll ==
    /\ (pc = "ready" /\ ncalls = 0 /\ IsFiltered(cfg.mutator))
        => state = cfg.initial
    /\ (AfterReplaceMutator /\ IsFiltered(asked)) => state = txPre
    /\ (AtCombineReturn(TRUE) /\ TopFrame(Mach).action = INIT)
        => TopFrame(Mach).called = <<>>

\* The application evaluates the composed selector.
Evaluates == nevals' = nevals + 1

\* C22 (as claimed): the composed selector memoizes the combiner's output:
\* evaluating it again while no tracked input changed since the previous
\* evaluation does not invoke the combiner and returns the cached value.
C22_CombinerMemoized ==
    [][(Evaluates /\ nevals > 0 /\ ~changed) =>
          /\ ncombine' = ncombine
          /\ composed' = composed]_vars

\* What the code does: every evaluation makes one new memo per input selector
\* (each running its selector once, then again once per change of the path it
\* reads) and invokes the combiner once on their accessors; the value returned
\* is the combination of the current inputs.
EveryEvaluationCombines ==
    /\ ncombine = nevals
    /\ Len(memos) = nevals * Len(Items)
    /\ \A j \in 1..Len(memos) :
          /\ memos[j].reads = Items[((j - 1) % Len(Items)) + 1]
          /\ memos[j].value = GetPath(state, memos[j].reads)
    /\ (nevals > 0 /\ ~changed) =>
          composed = Num(GetPath(state, Items[1]).n + GetPath(state, Items[2]).n)

\* v holds a function at some depth.
RECURSIVE HasFunction(_)
HasFunction(v) ==
    IF v.t = "function" THEN TRUE
    ELSE IF v.t = "array"
         THEN \E i \in 1..Len(v.items) : HasFunction(v.items[i])
    ELSE IF v.t = "object" THEN \E k \in AllKeys : HasFunction(v.f[k])
    ELSE FALSE

\* The fully-resolved snapshot of v: every accessor replaced by its
\* (recursively resolved) result, every other leaf kept.
RECURSIVE Resolved(_)
Resolved(v) ==
    IF v.t = "function" THEN Resolved(v.returns)
    ELSE IF v.t = "array"
         THEN List([i \in 1..Len(v.items) |-> Resolved(v.items[i])])
    ELSE IF v.t = "object" THEN Obj([k \in AllKeys |-> Resolved(v.f[k])])
    ELSE v

\* C23 (as claimed): access(v) is the fully-resolved snapshot of v: no
\* function at any depth, every accessor replaced by its recursively resolved
\* result, every other leaf (null included) unchanged; so access(v) = v when
\* v holds no accessor, and access(access(v)) = access(v).
C23_AccessResolves ==
    output # Pending =>
        /\ ~HasFunction(output)
        /\ output = Resolved(input)
        /\ (~HasFunction(input) => output = input)
        /\ access(output) = output

\* v holds null, or an accessor that returns an accessor, at some depth.
RECURSIVE HasNullOrNested(_)
HasNullOrNested(v) ==
    IF v.t = "null" THEN TRUE
    ELSE IF v.t = "function"
         THEN v.returns.t = "function" \/ HasNullOrNested(v.returns)
    ELSE IF v.t = "array"
         THEN \E i \in 1..Len(v.items) : HasNullOrNested(v.items[i])
    ELSE IF v.t = "object" THEN \E k \in AllKeys : HasNullOrNested(v.f[k])
    ELSE FALSE

\* What the code does: the claim's statement holds for every input without
\* null and without an accessor returning an accessor; null comes out as {}
\* and an accessor returned by an accessor comes out as it is.
AccessResolvesOnce ==
    output # Pending =>
        /\ ~HasNullOrNested(input) =>
              /\ ~HasFunction(output)
              /\ output = Resolved(input)
              /\ (~HasFunction(input) => output = input)
              /\ access(output) = output
        /\ input = Null => output = Obj(NoFields)
        /\ input = Accessor(Accessor(Num(2))) => output = Accessor(Num(2))

\* The innermost frame, a mutator body, is about to call
\* store.replaceMutator.
CallsReplaceMutator ==
    /\ stack # <<>>
    /\ exc = "none"
    /\ LET fr == TopFrame(Mach)
           ops == FrameOps(fr)
       IN /\ fr.k = "mutator"
          /\ fr.i <= Len(ops)
          /\ ops[fr.i].op = "replaceMutator"

\* The positions of the replaceMutator calls made by mutator bodies, among
\* the events lo..hi of the current top-level call.
Swaps(lo, hi) == {i \in lo..hi : trace[i].e = "swap"}

Latest(S) == CHOOSE i \in S : \A k \in S : k <= i

\* C24: replaceMutator called from inside a mutator throws the re-entrant-
\* dispatch error without running '@@INIT' (no mutator or effect is invoked,
\* the state is untouched), but the new mutator has been installed: it stays
\* installed and every later action goes through it.
C24_SwapSurvivesError ==
    /\ [][CallsReplaceMutator =>
             LET m == NamedMutator(FrameOps(TopFrame(Mach))[TopFrame(Mach).i].mutator)
             IN /\ is_mutating = 1
                /\ exc' = "reentrant"
                /\ mutator' = m
                /\ Len(stack') = Len(stack)
                /\ state' = state
                /\ trace' = trace \o
                      <<[e |-> "swap", m |-> m],
                        [e |-> "dispatch", v |-> INIT, rejected |-> TRUE]>>]_vars
    /\ [](mutator = asked)
    /\ [](\A j \in 1..Len(trace) :
             trace[j].e = "mutate" =>
                 IF Swaps(1, j - 1) # {}
                 THEN trace[j].by = trace[Latest(Swaps(1, j - 1))].m
                 ELSE Swaps(j + 1, Len(trace)) = {} => trace[j].by = mutator)

\* C24 witness: [{type: 'rewireTry'}, {type: 'increment'}] was dispatched to
\* the single store; its mutator called replaceMutator(readme), caught the
\* error and incremented, and the increment that followed went through the
\* README mutator.
C24_Witness ==
    /\ pc = "ready" /\ Idle(Mach) /\ cfg.name = "single" /\ ncalls = 1
    /\ top = Array(<<RewireTry, Inc>>)
    /\ mutator = Readme
    /\ state = CounterObject(2)
    /\ \E i, j \in 1..Len(trace) :
          /\ i + 1 < j
          /\ trace[i] = [e |-> "swap", m |-> Readme]
          /\ trace[i + 1] = [e |-> "dispatch", v |-> INIT, rejected |-> TRUE]
          /\ trace[j].e = "mutate"
          /\ trace[j].type = Str("increment")
          /\ trace[j].by = Readme

====
